---- MODULE Spec2Model ----
(***************************************************************************)
(* A model of cloud-lts/process: the source extractor                      *)
(* (extract_sources.py) and the CVE correlator (process_cves.py).          *)
(*                                                                         *)
(* A Python str is a sequence of one-character strings, so that strip,     *)
(* startswith, removeprefix, split, join, normpath and the ordering used   *)
(* by list.sort are computed character by character.                       *)
(***************************************************************************)
EXTENDS Integers, Sequences, FiniteSets, TLC

VARIABLES
    \* normalize_source_path applied to one raw line
    npc, nline, nresult,
    \* extract_sources.py: main
    pc, binaries, idx, dwarf, collected, sources, file, prior, written,
    writeInvoked, toolFailed, writeFailed, run, prevDone,
    \* process_cves.py: main
    cpc, compiledTxt, compiled_files, repo, response, cves, cidx, count,
    printed, queries, lastVerdict, cve

nvars == <<npc, nline, nresult>>
evars == <<pc, binaries, idx, dwarf, collected, sources, file, prior, written,
           writeInvoked, toolFailed, writeFailed, run, prevDone>>
cvars == <<cpc, compiledTxt, compiled_files, repo, response, cves, cidx, count,
           printed, queries, lastVerdict, cve>>
vars == <<nvars, evars, cvars>>

----------------------------------------------------------------------------
(* Python str operations *)

LF == "\n"
SEP == "/"

\* Code points of the characters the model uses (the order list.sort uses).
Ord(c) ==
    CASE c = "\n" -> 10
      [] c = " " -> 32
      [] c = "-" -> 45
      [] c = "." -> 46
      [] c = "/" -> 47
      [] c = "<" -> 60
      [] c = ">" -> 62
      [] c = "a" -> 97
      [] c = "b" -> 98
      [] c = "c" -> 99
      [] c = "i" -> 105
      [] c = "l" -> 108
      [] c = "n" -> 110
      [] c = "t" -> 116
      [] c = "u" -> 117

\* str.__lt__: lexicographic by code point.
RECURSIVE StrLess(_, _)
StrLess(s, t) ==
    IF t = <<>> THEN FALSE
    ELSE IF s = <<>> THEN TRUE
    ELSE IF Head(s) = Head(t) THEN StrLess(Tail(s), Tail(t))
    ELSE Ord(Head(s)) < Ord(Head(t))

Whitespace == {" ", "\n"}

RECURSIVE LStrip(_)
LStrip(s) ==
    IF s # <<>> /\ Head(s) \in Whitespace THEN LStrip(Tail(s)) ELSE s

RECURSIVE RStrip(_)
RStrip(s) ==
    IF s # <<>> /\ s[Len(s)] \in Whitespace
    THEN RStrip(SubSeq(s, 1, Len(s) - 1))
    ELSE s

\* str.strip()
Strip(s) == RStrip(LStrip(s))

\* str.startswith(p)
StartsWith(s, p) == Len(s) >= Len(p) /\ SubSeq(s, 1, Len(p)) = p

\* str.removeprefix(p)
RemovePrefix(s, p) ==
    IF StartsWith(s, p) THEN SubSeq(s, Len(p) + 1, Len(s)) ELSE s

\* str.split(c): the segments between the occurrences of c (never empty).
RECURSIVE SplitAcc(_, _, _)
SplitAcc(s, c, cur) ==
    IF s = <<>> THEN <<cur>>
    ELSE IF Head(s) = c THEN <<cur>> \o SplitAcc(Tail(s), c, <<>>)
    ELSE SplitAcc(Tail(s), c, Append(cur, Head(s)))

Split(s, c) == SplitAcc(s, c, <<>>)

\* c.join(segs)
RECURSIVE Join(_, _)
Join(segs, c) ==
    IF segs = <<>> THEN <<>>
    ELSE IF Len(segs) = 1 THEN segs[1]
    ELSE segs[1] \o <<c>> \o Join(Tail(segs), c)

Dot == <<".">>
DotDot == <<".", ".">>

\* posixpath.normpath: one leading slash, or exactly two, is kept.
InitialSlashes(path) ==
    IF ~StartsWith(path, <<SEP>>) THEN 0
    ELSE IF StartsWith(path, <<SEP, SEP>>) /\ ~StartsWith(path, <<SEP, SEP, SEP>>)
    THEN 2
    ELSE 1

RECURSIVE NormComps(_, _, _)
NormComps(comps, new, slashes) ==
    IF comps = <<>> THEN new
    ELSE LET comp == Head(comps)
             rest == Tail(comps)
         IN  IF comp = <<>> \/ comp = Dot THEN NormComps(rest, new, slashes)
             ELSE IF \/ comp # DotDot
                     \/ (slashes = 0 /\ new = <<>>)
                     \/ (new # <<>> /\ new[Len(new)] = DotDot)
             THEN NormComps(rest, Append(new, comp), slashes)
             ELSE IF new # <<>>
             THEN NormComps(rest, SubSeq(new, 1, Len(new) - 1), slashes)
             ELSE NormComps(rest, new, slashes)

\* os.path.normpath
NormPath(path) ==
    IF path = <<>> THEN Dot
    ELSE LET slashes == InitialSlashes(path)
             joined == Join(NormComps(Split(path, SEP), <<>>, slashes), SEP)
             full == [i \in 1..slashes |-> SEP] \o joined
         IN  IF full = <<>> THEN Dot ELSE full

----------------------------------------------------------------------------
(* extract_sources.py *)

\* The build root: the working directory of the process, an absolute path.
CUR_DIR == <<"/", "b">>

BuiltIn == <<"<", "b", "u", "i", "l", "t", "-", "i", "n", ">">>

\* normalize_source_path, lines 55-60.
normalize_source_path(path) ==
    LET p == Strip(path)
    IN  IF ~StartsWith(p, CUR_DIR) THEN <<>>
        ELSE NormPath(RemovePrefix(p, CUR_DIR \o <<SEP>>))

\* The filter of extract_sources_from_binary's list comprehension.
KeepSource(f) == f # <<>> /\ f # BuiltIn

\* str.splitlines() of a text already stripped: no line of it ends the text.
SplitLines(text) == IF text = <<>> THEN <<>> ELSE Split(text, LF)

Range(s) == {s[i] : i \in 1..Len(s)}

\* extract_sources_from_binary, given the tool's standard output.
extract_sources_from_binary(output) ==
    LET lines == SplitLines(Strip(output))
        mapped == [i \in 1..Len(lines) |-> normalize_source_path(lines[i])]
    IN  SelectSeq(mapped, KeepSource)

\* check_output replaced by a call that does not look at the exit code.
CheckOutputIgnoresExit(rc) == FALSE

\* subprocess.check_output raises CalledProcessError on a non-zero exit.
CheckOutputRaises(rc) == rc # 0

\* list.sort() on strings (insertion sort: the result is the sorted list).
RECURSIVE Insert(_, _)
Insert(x, s) ==
    IF s = <<>> THEN <<x>>
    ELSE IF StrLess(x, Head(s)) THEN <<x>> \o s
    ELSE <<Head(s)>> \o Insert(x, Tail(s))

RECURSIVE SortList(_)
SortList(s) == IF s = <<>> THEN <<>> ELSE Insert(Head(s), SortList(Tail(s)))

\* write_sources without its sources.sort().
SortSourcesOmitted(s) == s

\* write_sources, line 77.
SortSources(s) == SortList(s)

\* list(set(...)): the elements of the set, each once, in any order.
ListsOfSet(S) ==
    {p \in [1..Cardinality(S) -> S] :
        \A i, j \in 1..Cardinality(S) : p[i] = p[j] => i = j}

\* What print(*sources, sep='\n', file=f) has written after k of its arguments.
PrintItem(srcs, k) == IF k = 1 THEN srcs[k] ELSE <<LF>> \o srcs[k]

----------------------------------------------------------------------------
(* The inputs of the extractor *)

MaxRawLen == 5
MaxTotalLines == 3
MaxRuns == 2

NormAlphabet == {"/", ".", "b", " "}

\* Every raw line of at most MaxRawLen characters over NormAlphabet, and the
\* pseudo-source as the tool prints it and bare.
RawLines ==
    UNION {[1..k -> NormAlphabet] : k \in 0..MaxRawLen}
        \cup {CUR_DIR \o <<SEP>> \o BuiltIn, BuiltIn}

\* The raw lines the tool prints in the runs of main: a file under the build
\* root, the same file through a '.' segment, a second file, a file of a
\* sibling directory whose name begins with the build root's, the pseudo-source.
PipelineLines ==
    { <<"/", "b", "/", "c">>,
      <<"/", "b", "/", "a">>,
      <<"/", "b", "/", ".", "/", "a">>,
      <<"/", "b", "b", "/", "a">>,
      CUR_DIR \o <<SEP>> \o BuiltIn }

Vmlinux == "vmlinux"
Modules == {"m1.ko", "m2.ko"}
Artifacts == {Vmlinux} \cup Modules

\* glob.glob('**/*.ko', recursive=True): the modules, in any order.
GlobOrders == {p \in [1..Cardinality(Modules) -> Modules] :
                 \A i, j \in 1..Cardinality(Modules) : p[i] = p[j] => i = j}

ExitCodes == {0, 1}

\* llvm-dwarfdump --show-sources prints one source per line.
ToolStdout(lines) == IF lines = <<>> THEN <<>> ELSE Join(lines, LF) \o <<LF>>

Unread == [known |-> FALSE, lines |-> <<>>]

LinesUsed == LET RECURSIVE Sum(_)
                 Sum(S) == IF S = {} THEN 0
                           ELSE LET a == CHOOSE a \in S : TRUE
                                IN  Len(dwarf[a].lines) + Sum(S \ {a})
             IN  Sum(Artifacts)

OutputsUpTo(n) == UNION {[1..k -> PipelineLines] : k \in 0..n}

Absent == [exists |-> FALSE, data |-> <<>>]
PriorFiles == {Absent, [exists |-> TRUE, data |-> <<"c", LF>>]}

----------------------------------------------------------------------------
(* normalize_source_path over every raw line *)

NIdle == npc = "idle" /\ nline = <<>> /\ nresult = <<>>

NInit == npc = "raw" /\ nline \in RawLines /\ nresult = <<>>

NormalizeLine ==
    /\ UNCHANGED <<evars, cvars>>
    /\ npc = "raw"
    /\ nresult' = normalize_source_path(nline)
    /\ npc' = "normalized"
    /\ UNCHANGED nline

FilterLine ==
    /\ UNCHANGED <<evars, cvars>>
    /\ npc = "normalized"
    /\ npc' = IF KeepSource(nresult) THEN "kept" ELSE "dropped"
    /\ UNCHANGED <<nline, nresult>>

----------------------------------------------------------------------------
(* extract_sources.py: main *)

EIdle ==
    /\ pc = "idle" /\ binaries = <<>> /\ idx = 0
    /\ dwarf = [a \in Artifacts |-> Unread]
    /\ collected = {} /\ sources = <<>> /\ file = Absent /\ prior = Absent
    /\ written = 0 /\ writeInvoked = FALSE /\ toolFailed = FALSE
    /\ writeFailed = FALSE /\ run = 0 /\ prevDone = FALSE

EInit ==
    /\ pc = "start" /\ binaries = <<>> /\ idx = 0
    /\ dwarf = [a \in Artifacts |-> Unread]
    /\ collected = {} /\ sources = <<>>
    /\ file \in PriorFiles /\ prior = file
    /\ written = 0 /\ writeInvoked = FALSE /\ toolFailed = FALSE
    /\ writeFailed = FALSE /\ run = 1 /\ prevDone = FALSE

\* main, lines 105-116: --no-compile, or setup_config and compile_kernel.
SetupAndCompile ==
    /\ UNCHANGED <<nvars, cvars>>
    /\ pc = "start"
    /\ \E outcome \in {"no_compile", "built", "failed"} :
          pc' = IF outcome = "failed" THEN "exit" ELSE "glob"
    /\ UNCHANGED <<binaries, idx, dwarf, collected, sources, file, prior,
                   written, writeInvoked, toolFailed, writeFailed, run,
                   prevDone>>

\* extract_sources, line 71.
Glob ==
    /\ UNCHANGED <<nvars, cvars>>
    /\ pc = "glob"
    /\ \E order \in GlobOrders : binaries' = <<Vmlinux>> \o order
    /\ idx' = 1
    /\ pc' = "extract"
    /\ UNCHANGED <<dwarf, collected, sources, file, prior, written,
                   writeInvoked, toolFailed, writeFailed, run, prevDone>>

\* One turn of extract_sources' generator: extract_sources_from_binary.
ExtractBinary ==
    /\ UNCHANGED <<nvars, cvars>>
    /\ pc = "extract"
    /\ idx <= Len(binaries)
    /\ LET b == binaries[idx] IN
       \E rc \in ExitCodes :
       \E lines \in IF dwarf[b].known THEN {dwarf[b].lines}
                    ELSE OutputsUpTo(MaxTotalLines - LinesUsed) :
          IF CheckOutputRaises(rc)
          THEN /\ pc' = "exit"
               /\ toolFailed' = (rc # 0)
               /\ UNCHANGED <<idx, dwarf, collected>>
          ELSE /\ dwarf' = [dwarf EXCEPT ![b] = [known |-> TRUE, lines |-> lines]]
               /\ collected' = collected \cup
                      Range(extract_sources_from_binary(ToolStdout(lines)))
               /\ idx' = idx + 1
               /\ toolFailed' = (toolFailed \/ rc # 0)
               /\ pc' = pc
    /\ UNCHANGED <<binaries, sources, file, prior, written, writeInvoked,
                   writeFailed, run, prevDone>>

\* extract_sources returns list(set(...)).
ExtractReturn ==
    /\ UNCHANGED <<nvars, cvars>>
    /\ pc = "extract"
    /\ idx > Len(binaries)
    /\ \E order \in ListsOfSet(collected) : sources' = order
    /\ pc' = "write"
    /\ UNCHANGED <<binaries, idx, dwarf, collected, file, prior, written,
                   writeInvoked, toolFailed, writeFailed, run, prevDone>>

\* write_sources, lines 77-83: sort, then os.makedirs.
WriteBegin ==
    /\ UNCHANGED <<nvars, cvars>>
    /\ pc = "write"
    /\ writeInvoked' = TRUE
    /\ sources' = SortSources(sources)
    /\ \E ok \in BOOLEAN :
          /\ pc' = IF ok THEN "open" ELSE "exit"
          /\ writeFailed' = ~ok
    /\ UNCHANGED <<binaries, idx, dwarf, collected, file, prior, written,
                   toolFailed, run, prevDone>>

\* write_sources, line 84: open(output_file, 'w') creates or truncates.
WriteOpen ==
    /\ UNCHANGED <<nvars, cvars>>
    /\ pc = "open"
    /\ \E ok \in BOOLEAN :
          IF ok
          THEN /\ file' = [exists |-> TRUE, data |-> <<>>]
               /\ written' = 0
               /\ pc' = "print"
               /\ UNCHANGED writeFailed
          ELSE /\ pc' = "exit"
               /\ writeFailed' = TRUE
               /\ UNCHANGED <<file, written>>
    /\ UNCHANGED <<binaries, idx, dwarf, collected, sources, prior,
                   writeInvoked, toolFailed, run, prevDone>>

\* write_sources, line 85: print writes each path, the separators, the end.
WritePrint ==
    /\ UNCHANGED <<nvars, cvars>>
    /\ pc = "print"
    /\ IF written < Len(sources)
       THEN /\ file' = [file EXCEPT !.data = @ \o PrintItem(sources, written + 1)]
            /\ written' = written + 1
            /\ pc' = pc
       ELSE /\ file' = [file EXCEPT !.data = @ \o <<LF>>]
            /\ pc' = "done"
            /\ UNCHANGED written
    /\ UNCHANGED <<binaries, idx, dwarf, collected, sources, prior,
                   writeInvoked, toolFailed, writeFailed, run, prevDone>>

\* A write to the open file raises: main logs and exits.
WritePrintFails ==
    /\ UNCHANGED <<nvars, cvars>>
    /\ pc = "print"
    /\ pc' = "exit"
    /\ writeFailed' = TRUE
    /\ UNCHANGED <<binaries, idx, dwarf, collected, sources, file, prior,
                   written, writeInvoked, toolFailed, run, prevDone>>

\* After a successful run the script is run again over the same artifacts: a
\* new process, the output file as the last run left it.
RunAgain ==
    /\ UNCHANGED <<nvars, cvars>>
    /\ pc = "done"
    /\ run < MaxRuns
    /\ run' = run + 1
    /\ prevDone' = TRUE
    /\ prior' = file
    /\ pc' = "start"
    /\ binaries' = <<>> /\ idx' = 0 /\ collected' = {} /\ sources' = <<>>
    /\ written' = 0 /\ writeInvoked' = FALSE /\ toolFailed' = FALSE
    /\ writeFailed' = FALSE
    /\ UNCHANGED <<dwarf, file>>

----------------------------------------------------------------------------
(* process_cves.py *)

\* file.readlines(): the lines, each with its line end.
ReadLines(data) ==
    LET segs == Split(data, LF)
        n == Len(segs)
    IN  [i \in 1..(n - 1) |-> segs[i] \o <<LF>>]
            \o (IF segs[n] = <<>> THEN <<>> ELSE <<segs[n]>>)

\* main, lines 46-48: the compiled-file set read from the text file.
read_compiled_files(data) ==
    {NormPath(Strip(l)) : l \in Range(ReadLines(data))}

\* The prefix of a fix-commit reference, 'https://git.kernel.org/stable/c/'.
\* A URL is a sequence of its '/' and ' ' characters and of the words between
\* them: the prefix ends at a '/', so a URL starts with it exactly when its
\* words and separators do.
FixCommitPrefix ==
    <<"https:", "/", "/", "git.kernel.org", "/", "stable", "/", "c", "/">>

\* evaluate_cve's test with only the host of the prefix.
IsFixCommitUrlHostOnly(url) ==
    StartsWith(url, <<"https:", "/", "/", "git.kernel.org", "/">>)

\* evaluate_cve, line 24.
IsFixCommitUrl(url) == StartsWith(url, FixCommitPrefix)

\* evaluate_cve, line 25: url.split("/")[-1].strip()
CommitOf(url) == LET segs == Split(url, SEP) IN Strip(segs[Len(segs)])

\* bytes.splitlines(): the lines of the text, without their line ends.
BytesSplitLines(text) ==
    LET segs == Split(text, LF)
        n == Len(segs)
    IN  IF segs[n] = <<>> THEN SubSeq(segs, 1, n - 1) ELSE segs

\* evaluate_cve, lines 36-38.
AffectedFiles(stdout) ==
    LET lines == BytesSplitLines(stdout)
    IN  [i \in 1..Len(lines) |-> Strip(lines[i])]

\* evaluate_cve returning False at the first query that fails.
AfterFailedQueryStop(rest) == <<>>

\* evaluate_cve, lines 34-35: continue with the references that follow.
AfterFailedQuery(rest) == rest

\* evaluate_cve: the verdict, and the commits queried, in order.
RECURSIVE EvaluateRefs(_, _, _, _)
EvaluateRefs(refs, compiled, rp, asked) ==
    IF refs = <<>> THEN [verdict |-> FALSE, queries |-> asked]
    ELSE IF ~IsFixCommitUrl(Head(refs))
    THEN EvaluateRefs(Tail(refs), compiled, rp, asked)
    ELSE LET commit == CommitOf(Head(refs))
             resp == rp[commit]
         IN  IF resp.returncode # 0
             THEN EvaluateRefs(AfterFailedQuery(Tail(refs)), compiled, rp,
                               Append(asked, commit))
             ELSE [verdict |-> \E f \in Range(AffectedFiles(resp.stdout)) :
                                  f \in compiled,
                   queries |-> Append(asked, commit)]

evaluate_cve(record, compiled, rp) ==
    EvaluateRefs(record.references, compiled, rp, <<>>)

\* fetch_cves returning the entries whatever the status.
FetchCvesAnyStatus(resp) ==
    [i \in 1..Len(resp.vulnerabilities) |-> resp.vulnerabilities[i].cve]

\* fetch_cves, given the response of the feed.
fetch_cves(resp) ==
    IF resp.status # 200 THEN <<>>
    ELSE [i \in 1..Len(resp.vulnerabilities) |-> resp.vulnerabilities[i].cve]

----------------------------------------------------------------------------
(* The inputs of the correlator *)

MaxRefs == 2
MaxCves == 2

Commit1 == <<"c1">>
Commit2 == <<"c2">>
CommitIds == {Commit1, Commit2}

\* Reference URLs: two fix commits (the second with a trailing blank), and a
\* URL of the same host that is no fix-commit reference.
FixUrl1 == FixCommitPrefix \o Commit1
FixUrl2 == FixCommitPrefix \o Commit2 \o <<" ">>
OtherUrl == <<"https:", "/", "/", "git.kernel.org", "/", "linus", "/", "c1">>
RefUrls == {FixUrl1, FixUrl2, OtherUrl}

\* Every reference list of at most MaxRefs URLs.
RefLists == UNION {[1..k -> RefUrls] : k \in 0..MaxRefs}

\* git show --pretty= --name-only: the exit code and the standard output.
GitResults ==
    { [returncode |-> 128, stdout |-> <<>>],
      [returncode |-> 0, stdout |-> <<>>],
      [returncode |-> 0, stdout |-> <<"a", LF>>],
      [returncode |-> 0, stdout |-> <<".", "/", "a", LF>>] }

\* The pinned checkout: what the query answers for each commit.
Repos == [CommitIds -> GitResults]

\* compiled_files.txt
CompiledTexts ==
    { <<"a", LF, "c", LF>>, <<"c", LF>>, <<LF>> }

\* The compiled-file sets evaluate_cve is called with: those main reads, and
\* one a caller passes without normalizing it.
CompiledSets ==
    {read_compiled_files(t) : t \in CompiledTexts} \cup {{<<".", "/", "a">>}}

\* The reference lists of the records of a feed.
FeedRefLists ==
    { <<>>, <<OtherUrl>>, <<FixUrl1>>, <<FixUrl1, FixUrl2>>,
      <<OtherUrl, FixUrl2, FixUrl1>> }

\* The feeds of n entries: the i-th record has the identifier i.
FeedsOf(n) ==
    {[i \in 1..n |-> [cve |-> [id |-> i, references |-> refs[i]]]] :
        refs \in [1..n -> FeedRefLists]}

Feeds == UNION {FeedsOf(n) : n \in 0..MaxCves}

StatusCodes == {200, 503}

Responses == {[status |-> st, vulnerabilities |-> v] :
                 st \in StatusCodes, v \in Feeds}

NoRecord == [id |-> 0, references |-> <<>>]
NoResponse == [status |-> 0, vulnerabilities |-> <<>>]
NoRepo == [c \in CommitIds |-> [returncode |-> 0, stdout |-> <<>>]]

----------------------------------------------------------------------------
(* evaluate_cve over every record, compiled-file set and checkout *)

CIdle ==
    /\ cpc = "idle" /\ compiledTxt = <<>> /\ compiled_files = {}
    /\ repo = NoRepo /\ response = NoResponse /\ cves = <<>> /\ cidx = 0
    /\ count = 0 /\ printed = <<>> /\ queries = <<>> /\ lastVerdict = FALSE
    /\ cve = NoRecord

VInit ==
    /\ cpc = "call" /\ compiledTxt = <<>>
    /\ compiled_files \in CompiledSets
    /\ repo \in Repos
    /\ cve \in {[id |-> 1, references |-> refs] : refs \in RefLists}
    /\ response = NoResponse /\ cves = <<>> /\ cidx = 0 /\ count = 0
    /\ printed = <<>> /\ queries = <<>> /\ lastVerdict = FALSE

EvaluateCall ==
    /\ UNCHANGED <<nvars, evars>>
    /\ cpc = "call"
    /\ LET r == evaluate_cve(cve, compiled_files, repo)
       IN  /\ lastVerdict' = r.verdict
           /\ queries' = <<r.queries>>
    /\ cpc' = "returned"
    /\ UNCHANGED <<compiledTxt, compiled_files, repo, response, cves, cidx,
                   count, printed, cve>>

----------------------------------------------------------------------------
(* process_cves.py: main. compiled_files.txt exists and the feed answers. *)

CInit ==
    /\ cpc = "start"
    /\ compiledTxt \in CompiledTexts
    /\ compiled_files = {}
    /\ repo \in Repos
    /\ response \in Responses
    /\ cves = <<>> /\ cidx = 0 /\ count = 0 /\ printed = <<>>
    /\ queries = <<>> /\ lastVerdict = FALSE /\ cve = NoRecord

\* main, lines 46-48.
ReadCompiled ==
    /\ UNCHANGED <<nvars, evars>>
    /\ cpc = "start"
    /\ compiled_files' = read_compiled_files(compiledTxt)
    /\ cpc' = "fetch"
    /\ UNCHANGED <<compiledTxt, repo, response, cves, cidx, count, printed,
                   queries, lastVerdict, cve>>

\* main, lines 50-51.
Fetch ==
    /\ UNCHANGED <<nvars, evars>>
    /\ cpc = "fetch"
    /\ cves' = fetch_cves(response)
    /\ count' = 0
    /\ cidx' = 1
    /\ cpc' = "loop"
    /\ UNCHANGED <<compiledTxt, compiled_files, repo, response, printed,
                   queries, lastVerdict, cve>>

\* main, lines 52-56: one turn of the loop.
ProcessCve ==
    /\ UNCHANGED <<nvars, evars>>
    /\ cpc = "loop"
    /\ cidx <= Len(cves)
    /\ cve' = cves[cidx]
    /\ LET r == evaluate_cve(cves[cidx], compiled_files, repo)
       IN  /\ lastVerdict' = r.verdict
           /\ queries' = Append(queries, r.queries)
           /\ printed' = IF r.verdict THEN Append(printed, cves[cidx].id)
                         ELSE printed
           /\ count' = IF r.verdict THEN count + 1 ELSE count
    /\ cidx' = cidx + 1
    /\ UNCHANGED <<cpc, compiledTxt, compiled_files, repo, response, cves>>

\* main, line 57: the loop is over, the count is printed.
Finish ==
    /\ UNCHANGED <<nvars, evars>>
    /\ cpc = "loop"
    /\ cidx > Len(cves)
    /\ cpc' = "done"
    /\ UNCHANGED <<compiledTxt, compiled_files, repo, response, cves, cidx,
                   count, printed, queries, lastVerdict, cve>>

----------------------------------------------------------------------------
(* Specifications *)

NNext == NormalizeLine \/ FilterLine

InitNormalize == NInit /\ EIdle /\ CIdle

SpecNormalize == InitNormalize /\ [][NNext]_vars

ENext ==
    \/ SetupAndCompile
    \/ Glob
    \/ ExtractBinary
    \/ ExtractReturn
    \/ WriteBegin
    \/ WriteOpen
    \/ WritePrint
    \/ WritePrintFails
    \/ RunAgain

InitExtract == EInit /\ NIdle /\ CIdle

SpecExtract == InitExtract /\ [][ENext]_vars

VNext == EvaluateCall

InitEvaluate == VInit /\ NIdle /\ EIdle

SpecEvaluate == InitEvaluate /\ [][VNext]_vars

CNext ==
    \/ ReadCompiled
    \/ Fetch
    \/ ProcessCve
    \/ Finish

InitCorrelate == CInit /\ NIdle /\ EIdle

SpecCorrelate == InitCorrelate /\ [][CNext]_vars

----------------------------------------------------------------------------
(* Properties of the extractor *)

\* An absolute path (os.path.isabs).
IsAbs(path) == StartsWith(path, <<SEP>>)

\* A raw line lies under the build root when it names something below it.
UnderBuildRoot(p) == StartsWith(p, CUR_DIR \o <<SEP>>)

\* The lines of a written file: its text up to each line end.
FileLines(data) ==
    LET segs == Split(data, LF) IN SubSeq(segs, 1, Len(segs) - 1)

StrictlyAscending(s) == \A i \in 1..(Len(s) - 1) : StrLess(s[i], s[i + 1])

\* The normalized paths of every artifact read so far, whatever the order.
ExpectedPaths ==
    {p \in {normalize_source_path(l) :
               l \in UNION {Range(dwarf[a].lines) : a \in Artifacts}} :
        KeepSource(p)}

\* C1: every path extract_sources_from_binary returns, and so every element
\* of the set extract_sources builds, is a valid SourcePath: not empty, not
\* '<built-in>', not absolute.
C1_ValidSourcePaths ==
    \A p \in collected \cup Range(sources) :
        p # <<>> /\ p # BuiltIn /\ ~IsAbs(p)

\* C2: a raw line that does not lie under the build root normalizes to the
\* empty drop value, and is dropped by the filter.
C2_OutsideRootDropped ==
    (npc \in {"normalized", "kept", "dropped"} /\ ~UnderBuildRoot(Strip(nline)))
        => (nresult = <<>> /\ npc # "kept")

\* C3: once the introspection tool has exited non-zero for an artifact,
\* write_sources is not invoked in that run and the output file is as it was
\* before the run.
C3_ToolFailureAborts == toolFailed => (~writeInvoked /\ file = prior)

C3_Witness ==
    /\ toolFailed /\ pc = "exit"
    /\ idx = 3 /\ collected # {}
    /\ prior.exists

\* C7: the file write_sources wrote, re-read the way the correlator reads
\* it, gives the set that was written.
C7_RoundTrip ==
    pc = "done" => read_compiled_files(file.data) = Range(sources)

\* C8: after a failed write_sources the output file is absent or has the
\* content it had before the run.
C8_NoPartialOutput == writeFailed => (~file.exists \/ file = prior)

\* C10: a successful run writes the normalized paths of the artifacts, each
\* on one line, in strictly ascending order, so a second run over the same
\* artifacts leaves the file byte for byte as the first wrote it.
C10_CanonicalOutput ==
    pc = "done" =>
        /\ file.exists
        /\ file.data = Join(FileLines(file.data), LF) \o <<LF>>
        /\ StrictlyAscending(FileLines(file.data))
        /\ IF ExpectedPaths = {} THEN file.data = <<LF>>
           ELSE Range(FileLines(file.data)) = ExpectedPaths
        /\ prevDone => file = prior

C10_Witness ==
    /\ pc = "done" /\ prevDone
    /\ binaries = <<Vmlinux, "m2.ko", "m1.ko">>
    /\ Cardinality(ExpectedPaths) = 2
    /\ \E a \in Artifacts :
          /\ Len(dwarf[a].lines) = 2
          /\ dwarf[a].lines[1] # dwarf[a].lines[2]
          /\ normalize_source_path(dwarf[a].lines[1])
                = normalize_source_path(dwarf[a].lines[2])

----------------------------------------------------------------------------
(* Properties of the correlator *)

\* The commits of the references that start with the fix-commit prefix.
RECURSIVE MatchingCommits(_)
MatchingCommits(refs) ==
    IF refs = <<>> THEN <<>>
    ELSE IF StartsWith(Head(refs), FixCommitPrefix)
    THEN <<CommitOf(Head(refs))>> \o MatchingCommits(Tail(refs))
    ELSE MatchingCommits(Tail(refs))

Resolves(commit) == repo[commit].returncode = 0

\* A path set under the normalization of SourcePath equality.
Normalized(paths) == {NormPath(Strip(f)) : f \in paths}

\* The queries evaluate_cve has issued in the call of SpecEvaluate.
Asked == queries[1]

\* C4: when the fix commit resolves, evaluate_cve returns true exactly when
\* the commit's changed files and the compiled-file set, both normalized,
\* have a path in common.
C4_VerdictIsNormalizedIntersection ==
    (cpc = "returned" /\ Asked # <<>> /\ Resolves(Asked[Len(Asked)])) =>
        (lastVerdict <=>
            Normalized(Range(BytesSplitLines(repo[Asked[Len(Asked)]].stdout)))
                \cap Normalized(compiled_files) # {})

C6_NoFixReferenceNoQuery ==
    (cpc = "returned"
        /\ \A i \in 1..Len(cve.references) :
              ~StartsWith(cve.references[i], FixCommitPrefix))
        => (lastVerdict = FALSE /\ Asked = <<>>)

C6_Witness ==
    /\ cpc = "returned"
    /\ cve.references = <<OtherUrl, OtherUrl>>
    /\ repo[Commit1].stdout = <<"a", LF>>
    /\ <<"a">> \in compiled_files
    /\ lastVerdict = FALSE /\ Asked = <<>>

\* C9: when the feed answers with a status other than 200, fetch_cves
\* returns the empty list: no record is evaluated, no query is issued, no
\* identifier is printed and the final count is 0.
C9_Non200IsEmptyFeed ==
    (response.status # 200 /\ cpc \in {"loop", "done"}) =>
        /\ cves = <<>>
        /\ queries = <<>>
        /\ printed = <<>>
        /\ count = 0
        /\ cve = NoRecord

C9_Witness ==
    /\ cpc = "done"
    /\ response.status = 503
    /\ Len(response.vulnerabilities) = 2
    /\ response.vulnerabilities[1].cve.references = <<FixUrl1>>
    /\ repo[Commit1].stdout = <<"a", LF>>
    /\ <<"a">> \in compiled_files
    /\ count = 0

====
